---- MODULE Spec2Model ----
(***************************************************************************)
(* Natural-language-to-SQL pipeline of the user-management backend:        *)
(*   tools/smartQueryTool.ts   executeSmartQueryTool.execute (two variants)*)
(*   agents/sqlGeneratorAgent.ts   generateSQLQuery                        *)
(*   index.ts                  POST /api/command, GET /api/stats           *)
(*                             (two variants)                              *)
(* The two language-model agents and the Neon database are collaborators:  *)
(* their replies are nondeterministic choices over small sets.  Every      *)
(* await in a handler is a step boundary; the code between two awaits is   *)
(* one atomic action.                                                      *)
(***************************************************************************)
EXTENDS Integers, Sequences, FiniteSets, TLC

VARIABLES
  indexVer,   \* which index.ts is deployed: 1 = first listing, 2 = second
  toolVer,    \* which smartQueryTool.ts: 1 = tools/smartQueryTool.ts, 2 = unnamed/part_000
  pc,         \* per request: position of the handler
  route,      \* per request: "none", "command" or "stats"
  utter,      \* per request: the text handed to mainAgent.generateText
  q,          \* per request: the local binding q of execute (the parsed SQLQuery)
  toolRes,    \* per request: what execute returned to the main agent last
  calls,      \* per request: tool invocations the main agent has made
  resp,       \* per request: what the HTTP handler returned
  table,      \* the users table
  nextId,     \* the SERIAL sequence of users.id
  now,        \* the database clock, in days
  inv,        \* history, per request: its latest invocation of execute
  dbCalls,    \* history, per request: calls of sql.query made for it
  dbSeen,     \* history, per request: how its latest call of sql.query ended
  mainGen,    \* history, per request: calls of mainAgent.generateText
  mainReply,  \* history, per request: how mainAgent.generateText ended
  wrote,      \* history, per request: some database call of it changed the table
  statsLast,  \* history: the last statistics query
  dirty,      \* history: the table was written since the last statistics query
  ticked      \* history: the clock advanced since the last statistics query

vars == <<indexVer, toolVer, pc, route, utter, q, toolRes, calls, resp, table,
          nextId, now, inv, dbCalls, dbSeen, mainGen, mainReply, wrote, statsLast, dirty,
          ticked>>

(***************************************************************************)
(* Bounds of the model.                                                    *)
(***************************************************************************)
\* Tool invocations the main agent makes within one generateText.
MaxToolCalls == 1
\* Largest users.id the SERIAL sequence hands out.
MaxId == 3
\* Last day the clock reaches.
MaxNow == 7

\* Two request slots: every pair of concurrent requests is a pair of these.
Reqs == {1, 2}
\* The slot the sequential statistics runs use.
StatsReqs == {1}

\* INTERVAL '7 days' of the statistics query.
RecentDays == 7

None == [k |-> "none"]

(***************************************************************************)
(* Text.  A text is a sequence of tokens: a markdown fence, a run of prose *)
(* or the serialisation of one JSON value.                                 *)
(***************************************************************************)
FenceJson == [t |-> "fence_json"]
Fence == [t |-> "fence"]
Word == [t |-> "word"]
J(v) == [t |-> "json", v |-> v]

\* response.text.replace(/```json|```/g, "").trim()
Clean(text) == SelectSeq(text, LAMBDA tok : tok.t \notin {"fence_json", "fence"})

\* JSON.parse: a value, or a SyntaxError with its message
JSONParse(text) ==
  IF text = <<>> THEN [ok |-> FALSE, error |-> "Unexpected end of JSON input"]
  ELSE IF text[1].t # "json" THEN [ok |-> FALSE, error |-> "Unexpected token"]
  ELSE IF Len(text) > 1 THEN [ok |-> FALSE, error |-> "Unexpected non-whitespace character after JSON"]
  ELSE [ok |-> TRUE, value |-> text[1].v]

(***************************************************************************)
(* SQL statements: a sequence of tokens, SQL text (with its leading verb), *)
(* a positional placeholder $n, or a literal written into the text.        *)
(***************************************************************************)
Sql(verb, s) == [k |-> "sql", verb |-> verb, s |-> s]
Ph(n) == [k |-> "ph", n |-> n]
Lit(v) == [k |-> "lit", v |-> v]

Placeholders(stmt) == {stmt[i].n : i \in {j \in DOMAIN stmt : stmt[j].k = "ph"}}
Literals(stmt) == {stmt[i].v : i \in {j \in DOMAIN stmt : stmt[j].k = "lit"}}
Verb(stmt) == IF stmt # <<>> /\ stmt[1].k = "sql" THEN stmt[1].verb ELSE ""

\* The literal values users put in their requests.
Values == {"john", "x'; DROP TABLE users; --"}
Commands == {"find", "delete"}
Hi == [cmd |-> "hi", val |-> ""]
StatsPrompt == [cmd |-> "stats", val |-> ""]
\* "find user john", "delete user john", the same with the other value, "hi"
Utterances ==
  {[cmd |-> "find", val |-> "john"]} \cup {[cmd |-> "delete", val |-> v] : v \in Values} \cup {Hi}


(***************************************************************************)
(* The SQL generator agent (sqlGeneratorAgent.generateText).  It is asked  *)
(* for a query by its instructions and by the output schema, and nothing   *)
(* in the code constrains what its text is: a query with every value as a  *)
(* parameter, one with the values written into the statement, one whose    *)
(* placeholders do not agree with its parameters, an empty statement, a    *)
(* statement of another kind, or a reply inside a markdown fence.  It may  *)
(* also fail.                                                              *)
(***************************************************************************)
OpOf(cmd) ==
  CASE cmd = "find" -> "SELECT"
    [] cmd = "delete" -> "DELETE"
    [] cmd = "add" -> "INSERT"
    [] OTHER -> "SELECT"

\* the statement the instructions' examples give for each kind of request
Template(cmd) ==
  CASE cmd = "find" -> <<Sql("SELECT", "SELECT * FROM users WHERE name ILIKE"), Ph(1)>>
    [] cmd = "delete" -> <<Sql("DELETE", "DELETE FROM users WHERE name ="), Ph(1), Sql("", "RETURNING *")>>
    [] cmd = "add" -> <<Sql("INSERT", "INSERT INTO users (name) VALUES"), Ph(1), Sql("", "RETURNING *")>>
    [] OTHER -> <<Sql("SELECT", "SELECT * FROM users ORDER BY created_at DESC LIMIT 100")>>

Inlined(stmt, params) ==
  [i \in DOMAIN stmt |-> IF stmt[i].k = "ph" THEN Lit(params[stmt[i].n]) ELSE stmt[i]]

ParamsOf(u) == IF u.val # "" THEN <<u.val>> ELSE <<>>

SQLQueryOf(stmt, params, op) ==
  [query |-> stmt, parameters |-> params, operation |-> op, explanation |-> "generated"]

GenQueries(u) ==
  { SQLQueryOf(Template(u.cmd), ParamsOf(u), OpOf(u.cmd)),
    SQLQueryOf(Inlined(Template(u.cmd), ParamsOf(u)), <<>>, OpOf(u.cmd)),
    SQLQueryOf(Template("delete"), <<>>, "DELETE"),
    SQLQueryOf(<<>>, <<>>, OpOf(u.cmd)),
    SQLQueryOf(<<Sql("TRUNCATE", "TRUNCATE users")>>, <<>>, "TRUNCATE") }

GenTexts(u) ==
  {<<J(g)>> : g \in GenQueries(u)}
    \cup {<<FenceJson, J(SQLQueryOf(Template(u.cmd), ParamsOf(u), OpOf(u.cmd))), Fence>>}

GenErrors == {"generation service unavailable"}

(***************************************************************************)
(* The database (neon's sql.query).  Rows are [id, name, created_at].      *)
(***************************************************************************)
RECURSIVE SortById(_)
SortById(S) ==
  IF S = {} THEN <<>>
  ELSE LET r == CHOOSE x \in S : \A y \in S : x.id <= y.id
       IN <<r>> \o SortById(S \ {r})

Raise(msg) == [raised |-> TRUE, msg |-> msg]
Rows(rows, tbl, nid) == [raised |-> FALSE, rows |-> rows, table |-> tbl, nextId |-> nid]

\* the values of a statement in the order they are written, bound or literal
StmtValues(stmt, params) ==
  LET vs == SelectSeq(stmt, LAMBDA tok : tok.k # "sql")
  IN [i \in DOMAIN vs |-> IF vs[i].k = "ph" THEN params[vs[i].n] ELSE vs[i].v]

DbExecute(stmt, params, tbl, nid, t) ==
  LET vals == StmtValues(stmt, params)
      hit == IF vals = <<>> THEN tbl ELSE {r \in tbl : r.name = vals[1]}
  IN CASE Verb(stmt) = "SELECT" -> {Rows(SortById(hit), tbl, nid)}
       [] Verb(stmt) = "DELETE" -> {Rows(SortById(hit), tbl \ hit, nid)}
       [] Verb(stmt) = "INSERT" ->
            {Raise("duplicate key value violates unique constraint")}
              \cup (IF nid <= MaxId /\ vals # <<>>
                    THEN LET r == [id |-> nid, name |-> vals[1], created_at |-> t]
                         IN {Rows(<<r>>, tbl \cup {r}, nid + 1)}
                    ELSE {})
       [] Verb(stmt) = "TRUNCATE" -> {Rows(<<>>, {}, nid)}
       [] OTHER -> {Raise("syntax error")}

\* sql.query(statement, parameters): rows, or an error with a message
DbOutcomes(stmt, params, tbl, nid, t) ==
  {Raise("connection terminated")}
    \cup (IF stmt = <<>> THEN {Raise("syntax error")}
          ELSE IF Placeholders(stmt) # 1..Len(params)
            THEN {Raise("bind message does not match the prepared statement")}
          ELSE DbExecute(stmt, params, tbl, nid, t))

(***************************************************************************)
(* executeSmartQueryTool.execute                                           *)
(***************************************************************************)
\* mutant of QueryArgs: the parameters are not passed on
QueryArgsNoParams(qq) == [stmt |-> qq.query, params |-> <<>>]

\* sql.query(q.query, q.parameters)
QueryArgs(qq) == [stmt |-> qq.query, params |-> qq.parameters]

\* the success return of execute; only tools/smartQueryTool.ts echoes operation
SuccessResult(ver, rows, qq) ==
  IF ver = 1
  THEN [success |-> TRUE, users |-> rows, count |-> Len(rows),
        message |-> <<"Retrieved", Len(rows), "users">>, operation |-> qq.operation]
  ELSE [success |-> TRUE, users |-> rows, count |-> Len(rows),
        message |-> <<"Retrieved", Len(rows), "users">>]

\* mutant of CatchResult: a fixed text in place of the collaborator's message
CatchResultGeneric(msg) == [success |-> FALSE, error |-> "Query failed"]

\* catch (e) { return { success: false, error: e.message } }
CatchResult(msg) == [success |-> FALSE, error |-> msg]

\* mutant of BoundQuery: q kept in one place for all requests, so that a
\* request reads what another one stored
SharedQuery(qs, r) ==
  LET o == CHOOSE x \in DOMAIN qs : x # r
  IN IF qs[o] # None THEN qs[o] ELSE qs[r]

\* the binding of q that execute reads when it calls the database
BoundQuery(qs, r) == qs[r]

NewInvocation(u) ==
  [nq |-> u, genN |-> 0, gen |-> None, dbN |-> 0, dbArgs |-> None, dbOut |-> None, ret |-> None]


\* the main agent decides to call execute_smart_query (it answers a greeting
\* itself): execute starts and awaits generateSQLQuery(naturalQuery)
ToolCall(r) ==
  /\ pc[r] = "agent"
  /\ calls[r] < MaxToolCalls
  /\ utter[r].cmd # "hi"
  /\ pc' = [pc EXCEPT ![r] = "tool_gen"]
  /\ calls' = [calls EXCEPT ![r] = @ + 1]
  /\ inv' = [inv EXCEPT ![r] = [NewInvocation(utter[r]) EXCEPT !.genN = 1]]
  /\ UNCHANGED <<indexVer, toolVer, mainReply, dbSeen, route, utter, q, toolRes, resp, table, nextId,
                 now, dbCalls, mainGen, wrote, statsLast, dirty, ticked>>

\* sqlGeneratorAgent.generateText rejects: execute's catch returns the failure
GenThrows(r) ==
  /\ pc[r] = "tool_gen"
  /\ \E msg \in GenErrors :
       /\ toolRes' = [toolRes EXCEPT ![r] = CatchResult(msg)]
       /\ inv' = [inv EXCEPT ![r] = [@ EXCEPT !.gen = [ok |-> FALSE, error |-> msg],
                                                      !.ret = CatchResult(msg)]]
  /\ pc' = [pc EXCEPT ![r] = "agent"]
  /\ UNCHANGED <<indexVer, toolVer, mainReply, dbSeen, route, utter, q, calls, resp, table, nextId,
                 now, dbCalls, mainGen, wrote, statsLast, dirty, ticked>>

\* sqlGeneratorAgent.generateText resolves: JSON.parse(result.text), then
\* either the catch, or execute goes on to await sql.query
GenReturns(r) ==
  /\ pc[r] = "tool_gen"
  /\ \E text \in GenTexts(utter[r]) :
       LET p == JSONParse(text)
       IN IF p.ok
          THEN /\ q' = [q EXCEPT ![r] = p.value]
               /\ pc' = [pc EXCEPT ![r] = "tool_db"]
               /\ inv' = [inv EXCEPT ![r] = [@ EXCEPT !.gen = [ok |-> TRUE, value |-> p.value]]]
               /\ UNCHANGED toolRes
          ELSE /\ toolRes' = [toolRes EXCEPT ![r] = CatchResult(p.error)]
               /\ pc' = [pc EXCEPT ![r] = "agent"]
               /\ inv' = [inv EXCEPT ![r] = [@ EXCEPT !.gen = [ok |-> FALSE, error |-> p.error],
                                                              !.ret = CatchResult(p.error)]]
               /\ UNCHANGED q
  /\ UNCHANGED <<indexVer, toolVer, mainReply, dbSeen, route, utter, calls, resp, table, nextId,
                 now, dbCalls, mainGen, wrote, statsLast, dirty, ticked>>

\* sql.query settles: the success return, or the catch
DbReturns(r) ==
  /\ pc[r] = "tool_db"
  /\ LET qq == BoundQuery(q, r)
         a == QueryArgs(qq)
     IN \E o \in DbOutcomes(a.stmt, a.params, table, nextId, now) :
          LET ret == IF o.raised THEN CatchResult(o.msg) ELSE SuccessResult(toolVer, o.rows, qq)
              out == IF o.raised THEN [raised |-> TRUE, msg |-> o.msg]
                     ELSE [raised |-> FALSE, rows |-> o.rows]
          IN /\ toolRes' = [toolRes EXCEPT ![r] = ret]
             /\ inv' = [inv EXCEPT ![r] = [@ EXCEPT !.dbN = @ + 1, !.dbArgs = a,
                                                            !.dbOut = out, !.ret = ret]]
             /\ dbCalls' = [dbCalls EXCEPT ![r] = @ + 1]
             /\ dbSeen' = [dbSeen EXCEPT ![r] = out]
             /\ table' = IF o.raised THEN table ELSE o.table
             /\ nextId' = IF o.raised THEN nextId ELSE o.nextId
             /\ wrote' = [wrote EXCEPT ![r] = @ \/ (~o.raised /\ o.table # table)]
             /\ dirty' = (dirty \/ (~o.raised /\ o.table # table))
             /\ UNCHANGED ticked
  /\ pc' = [pc EXCEPT ![r] = "agent"]
  /\ UNCHANGED <<indexVer, toolVer, mainReply, route, utter, q, calls, resp, now, mainGen,
                 statsLast>>


(***************************************************************************)
(* index.ts: the HTTP handlers                                             *)
(***************************************************************************)
Json(status, body) == [k |-> "json", status |-> status, body |-> body]
\* an exception that leaves the handler
Fault(msg) == [k |-> "fault", error |-> msg]

Conversation ==
  [success |-> TRUE, message |-> "Hello! I'm your user management assistant.", type |-> "conversation"]

\* What mainAgent.generateText resolves to.  The agent is told to return the
\* tool's JSON and nothing else; its text is its own.
MainTexts(res) ==
  LET base == IF res = None THEN Conversation ELSE res
  IN {<<J(base)>>, <<FenceJson, J(base), Fence>>, <<Word, J(base)>>, <<J([message |-> "done"])>>}

MainErrors == {"agent unavailable"}

\* POST /api/command, the catch: the first index.ts answers 500 with an
\* envelope, the second has no try and the exception leaves the handler
CommandCatch(ver, msg) ==
  IF ver = 1
  THEN Json(500, [success |-> FALSE, error |-> IF msg = "" THEN "Failed to process command" ELSE msg])
  ELSE Fault(msg)

\* POST /api/command from the agent's text on: clean, parse, c.json(parsed)
CommandReturn(ver, text) ==
  LET p == JSONParse(Clean(text))
  IN IF p.ok THEN Json(200, p.value) ELSE CommandCatch(ver, p.error)

\* GET /api/stats of the second index.ts from the agent's text on: the inner
\* try replaces a parse failure by a fixed envelope
StatsAgentReturn(text) ==
  LET p == JSONParse(Clean(text))
  IN IF p.ok THEN Json(200, p.value)
     ELSE Json(200, [success |-> FALSE, error |-> "Failed to get statistics"])

\* GET /api/stats, the outer catch (error?.message ?? "Unknown error")
StatsCatch(msg) == Json(500, [success |-> FALSE, error |-> msg])

Digits == <<"0", "1", "2", "3", "4", "5", "6", "7", "8", "9">>
\* COUNT(*) arrives as a decimal string
CountText(n) == Digits[n + 1]
\* parseInt
ParseInt(s) == CHOOSE n \in 0..9 : Digits[n + 1] = s

\* mutant of StatsRow: the 7-day filter also applied to the total
StatsRowWindowed(tbl, t) ==
  [total_users |-> CountText(Cardinality({r \in tbl : r.created_at > t - RecentDays})),
   recent_users |-> CountText(Cardinality({r \in tbl : r.created_at > t - RecentDays})),
   today_users |-> CountText(Cardinality({r \in tbl : r.created_at = t}))]

\* the row of the fixed statistics query
StatsRow(tbl, t) ==
  [total_users |-> CountText(Cardinality(tbl)),
   recent_users |-> CountText(Cardinality({r \in tbl : r.created_at > t - RecentDays})),
   today_users |-> CountText(Cardinality({r \in tbl : r.created_at = t}))]

\* GET /api/stats of the first index.ts, the success return
StatsReturn(stats) ==
  Json(200, [success |-> TRUE,
             stats |-> [total_users |-> ParseInt(stats.total_users),
                        recent_users |-> ParseInt(stats.recent_users),
                        today_users |-> ParseInt(stats.today_users)]])

\* POST /api/command with a JSON body: await mainAgent.generateText(input)
ReceiveCommand(r, inputs) ==
  /\ pc[r] = "idle"
  /\ \E u \in inputs : utter' = [utter EXCEPT ![r] = u]
  /\ pc' = [pc EXCEPT ![r] = "agent"]
  /\ route' = [route EXCEPT ![r] = "command"]
  /\ mainGen' = [mainGen EXCEPT ![r] = @ + 1]
  /\ UNCHANGED <<indexVer, toolVer, mainReply, dbSeen, q, toolRes, calls, resp, table, nextId, now,
                 inv, dbCalls, wrote, statsLast, dirty, ticked>>

\* POST /api/command whose body is not JSON: c.req.json() throws
ReceiveMalformed(r) ==
  /\ pc[r] = "idle"
  /\ pc' = [pc EXCEPT ![r] = "done"]
  /\ route' = [route EXCEPT ![r] = "command"]
  /\ resp' = [resp EXCEPT ![r] = CommandCatch(indexVer, "Unexpected end of JSON input")]
  /\ UNCHANGED <<indexVer, toolVer, mainReply, dbSeen, utter, q, toolRes, calls, table, nextId, now,
                 inv, dbCalls, mainGen, wrote, statsLast, dirty, ticked>>

\* the handler returns: its locals, and those of execute, are gone
HandlerReturns(r) ==
  /\ pc' = [pc EXCEPT ![r] = "done"]
  /\ utter' = [utter EXCEPT ![r] = None]
  /\ q' = [q EXCEPT ![r] = None]
  /\ toolRes' = [toolRes EXCEPT ![r] = None]
  /\ calls' = [calls EXCEPT ![r] = 0]
  /\ inv' = [inv EXCEPT ![r] = None]

\* mainAgent.generateText resolves and the handler returns
AgentReplies(r) ==
  /\ pc[r] = "agent"
  /\ \E text \in MainTexts(toolRes[r]) :
       /\ resp' = [resp EXCEPT ![r] = IF route[r] = "command" THEN CommandReturn(indexVer, text)
                                      ELSE StatsAgentReturn(text)]
       /\ mainReply' = [mainReply EXCEPT ![r] = IF JSONParse(Clean(text)).ok THEN "parsed"
                                                ELSE "unparseable"]
  /\ HandlerReturns(r)
  /\ UNCHANGED <<indexVer, toolVer, route, table, nextId, now, dbCalls, dbSeen,
                 mainGen, wrote, statsLast, dirty, ticked>>

\* mainAgent.generateText rejects
AgentThrows(r) ==
  /\ pc[r] = "agent"
  /\ \E msg \in MainErrors :
       resp' = [resp EXCEPT ![r] = IF route[r] = "command" THEN CommandCatch(indexVer, msg)
                                   ELSE StatsCatch(msg)]
  /\ mainReply' = [mainReply EXCEPT ![r] = "threw"]
  /\ HandlerReturns(r)
  /\ UNCHANGED <<indexVer, toolVer, route, table, nextId, now, dbCalls, dbSeen,
                 mainGen, wrote, statsLast, dirty, ticked>>

\* GET /api/stats of the first index.ts: one fixed query, answered at once
StatsDirect(r) ==
  /\ pc[r] = "idle"
  /\ indexVer = 1
  /\ pc' = [pc EXCEPT ![r] = "done"]
  /\ route' = [route EXCEPT ![r] = "stats"]
  /\ \/ /\ resp' = [resp EXCEPT ![r] = StatsReturn(StatsRow(table, now))]
        /\ statsLast' = [reply |-> StatsReturn(StatsRow(table, now)).body.stats,
                         again |-> statsLast # None /\ ~dirty,
                         sameClock |-> statsLast # None /\ ~ticked]
        /\ dirty' = FALSE
        /\ ticked' = FALSE
     \/ /\ resp' = [resp EXCEPT ![r] = StatsCatch("connection terminated")]
        /\ UNCHANGED <<statsLast, dirty, ticked>>
  /\ UNCHANGED <<indexVer, toolVer, mainReply, dbSeen, utter, q, toolRes, calls, table, nextId, now,
                 inv, dbCalls, mainGen, wrote>>

\* GET /api/stats of the second index.ts:
\* await mainAgent.generateText("Get database statistics")
StatsViaAgent(r) ==
  /\ pc[r] = "idle"
  /\ indexVer = 2
  /\ pc' = [pc EXCEPT ![r] = "agent"]
  /\ route' = [route EXCEPT ![r] = "stats"]
  /\ utter' = [utter EXCEPT ![r] = StatsPrompt]
  /\ mainGen' = [mainGen EXCEPT ![r] = @ + 1]
  /\ UNCHANGED <<indexVer, toolVer, mainReply, dbSeen, q, toolRes, calls, resp, table, nextId, now,
                 inv, dbCalls, wrote, statsLast, dirty, ticked>>

\* the request is over; the slot takes the next one
NextRequest(r) ==
  /\ pc[r] = "done"
  /\ pc' = [pc EXCEPT ![r] = "idle"]
  /\ route' = [route EXCEPT ![r] = "none"]
  /\ resp' = [resp EXCEPT ![r] = None]
  /\ dbCalls' = [dbCalls EXCEPT ![r] = 0]
  /\ dbSeen' = [dbSeen EXCEPT ![r] = None]
  /\ mainGen' = [mainGen EXCEPT ![r] = 0]
  /\ wrote' = [wrote EXCEPT ![r] = FALSE]
  /\ mainReply' = [mainReply EXCEPT ![r] = "none"]
  /\ UNCHANGED <<indexVer, toolVer, utter, q, toolRes, calls, inv, table, nextId, now,
                 statsLast, dirty, ticked>>

\* a day passes
Tick ==
  /\ now < MaxNow
  /\ now' = now + 1
  /\ ticked' = TRUE
  /\ UNCHANGED <<indexVer, toolVer, mainReply, dbSeen, pc, route, utter, q, toolRes, calls, resp, table,
                 nextId, inv, dbCalls, mainGen, wrote, statsLast, dirty>>

(***************************************************************************)
(* Specifications                                                          *)
(***************************************************************************)
\* after initializeDatabase: the users table exists; two users are in it
Init ==
  /\ indexVer \in {1, 2}
  /\ toolVer \in {1, 2}
  /\ pc = [r \in Reqs |-> "idle"]
  /\ route = [r \in Reqs |-> "none"]
  /\ utter = [r \in Reqs |-> None]
  /\ q = [r \in Reqs |-> None]
  /\ toolRes = [r \in Reqs |-> None]
  /\ calls = [r \in Reqs |-> 0]
  /\ resp = [r \in Reqs |-> None]
  /\ table = {[id |-> 1, name |-> "john", created_at |-> 0],
              [id |-> 2, name |-> "john", created_at |-> 0]}
  /\ nextId = 3
  /\ now = 0
  /\ inv = [r \in Reqs |-> None]
  /\ dbCalls = [r \in Reqs |-> 0]
  /\ dbSeen = [r \in Reqs |-> None]
  /\ mainGen = [r \in Reqs |-> 0]
  /\ mainReply = [r \in Reqs |-> "none"]
  /\ wrote = [r \in Reqs |-> FALSE]
  /\ statsLast = None
  /\ dirty = FALSE
  /\ ticked = FALSE

\* concurrent command requests
Next ==
  \E r \in Reqs :
    \/ ReceiveCommand(r, Utterances)
    \/ ReceiveMalformed(r)
    \/ ToolCall(r)
    \/ GenThrows(r)
    \/ GenReturns(r)
    \/ DbReturns(r)
    \/ AgentReplies(r)
    \/ AgentThrows(r)

Spec == Init /\ [][Next]_vars

\* what the requests between two statistics runs ask for
StatsUtterances == {[cmd |-> "add", val |-> "john"]}

\* statistics runs, command requests and the clock, one request at a time
NextStats ==
  \/ Tick
  \/ \E r \in StatsReqs :
       \/ StatsDirect(r)
       \/ StatsViaAgent(r)
       \/ ReceiveCommand(r, StatsUtterances)
       \/ ToolCall(r)
       \/ GenThrows(r)
       \/ GenReturns(r)
       \/ DbReturns(r)
       \/ AgentReplies(r)
       \/ AgentThrows(r)
       \/ NextRequest(r)

\* the statistics handlers never read what execute returns: one variant of it
InitStats == Init /\ toolVer = 1

SpecStats == InitStats /\ [][NextStats]_vars


(***************************************************************************)
(* Properties                                                              *)
(***************************************************************************)
\* z.enum(["SELECT", "INSERT", "UPDATE", "DELETE"]) of sqlQuerySchema
AllowedOperations == {"SELECT", "INSERT", "UPDATE", "DELETE"}

\* the three checks a query must pass before it may run
ValidQuery(qq) ==
  /\ qq.operation \in AllowedOperations
  /\ qq.query # <<>>
  /\ Placeholders(qq.query) = 1..Len(qq.parameters)

Generated(r) == inv[r] # None /\ inv[r].gen # None /\ inv[r].gen.ok
DbCalled(r) == inv[r] # None /\ inv[r].dbArgs # None
DbRaised(r) == DbCalled(r) /\ inv[r].dbOut.raised
DbAnswered(r) == DbCalled(r) /\ ~inv[r].dbOut.raised

\* C1: within an invocation of execute, sql.query is called only with a
\* generated query that has an allowed operation, a non-empty statement and
\* placeholders exactly 1..len(parameters); for a generated query failing a
\* check no database call is made and execute returns success = false.
C1_OnlyValidQueriesReachDatabase ==
  \A r \in Reqs :
    /\ DbCalled(r) =>
         ValidQuery([query |-> inv[r].dbArgs.stmt, parameters |-> inv[r].dbArgs.params,
                     operation |-> inv[r].gen.value.operation])
    /\ (Generated(r) /\ ~ValidQuery(inv[r].gen.value)) =>
         /\ pc[r] # "tool_db"
         /\ inv[r].dbN = 0
         /\ inv[r].ret # None
         /\ ~inv[r].ret.success

\* C2: every command request ends with one JSON object that has a boolean
\* success field, a failure has success = false and an error string, and no
\* failure leaves the handler as an exception.
C2_CommandAlwaysReturnsEnvelope ==
  \A r \in Reqs :
    (pc[r] = "done" /\ route[r] = "command") =>
      /\ resp[r].k = "json"
      /\ "success" \in DOMAIN resp[r].body
      /\ resp[r].body.success \in BOOLEAN
      /\ ~resp[r].body.success => "error" \in DOMAIN resp[r].body

\* C3: when the agent's reply of a command request does not parse as JSON
\* after the fences are stripped, the request ends with
\* {success: false, error: <parse error message>} and sql.query was not
\* called at any point of the request.
C3_UnparseableReplyMeansNoExecution ==
  \A r \in Reqs :
    (pc[r] = "done" /\ route[r] = "command" /\ mainReply[r] = "unparseable") =>
      /\ resp[r].k = "json"
      /\ DOMAIN resp[r].body = {"success", "error"}
      /\ ~resp[r].body.success
      /\ dbCalls[r] = 0

\* C4: when sql.query raises, execute returns exactly
\* {success: false, error: <the collaborator's message>}: the exception stays
\* inside execute, and the result has no rows, count or operation.
C4_DatabaseErrorBecomesFailureEnvelope ==
  \A r \in Reqs :
    DbRaised(r) =>
      /\ inv[r].ret = [success |-> FALSE, error |-> inv[r].dbOut.msg]
      /\ toolRes[r] = inv[r].ret
      /\ pc[r] = "agent"

C4_Witness ==
  \E r \in Reqs :
    /\ DbRaised(r)
    /\ inv[r].dbOut.msg = "bind message does not match the prepared statement"
    /\ inv[r].ret.error = "bind message does not match the prepared statement"

\* C5: when sql.query returns rows, execute's result has success = true, the
\* rows in their order, count = the number of rows, and the operation of the
\* query that ran; also for zero rows.
C5_SuccessCarriesRowsCountOperation ==
  \A r \in Reqs :
    DbAnswered(r) =>
      /\ inv[r].ret.success
      /\ inv[r].ret.users = inv[r].dbOut.rows
      /\ inv[r].ret.count = Len(inv[r].dbOut.rows)
      /\ "operation" \in DOMAIN inv[r].ret
      /\ inv[r].ret.operation = inv[r].gen.value.operation

\* C6: the statement that reaches sql.query holds none of the literal values
\* of the request (they are in the parameters only), and two requests that
\* differ only in such a value reach the database with the same statement.
C6_StatementIndependentOfUserValues ==
  /\ \A r \in Reqs : DbCalled(r) => Literals(inv[r].dbArgs.stmt) \cap Values = {}
  /\ \A r1, r2 \in Reqs :
       (DbCalled(r1) /\ DbCalled(r2) /\ inv[r1].nq.cmd = inv[r2].nq.cmd) =>
         inv[r1].dbArgs.stmt = inv[r2].dbArgs.stmt

\* C7: a statistics request never calls a generation collaborator, never
\* enters execute, and leaves the users table as it was.
C7_StatsBypassesAgentsAndNeverWrites ==
  \A r \in StatsReqs :
    route[r] = "stats" => (mainGen[r] = 0 /\ inv[r] = None /\ dbCalls[r] = 0 /\ ~wrote[r])

\* a statistics query has just run, with no write since the one before it
StatsRanAgain ==
  /\ statsLast # None
  /\ statsLast' # statsLast
  /\ statsLast'.again

\* C8, as claimed: two statistics queries with no write between them give
\* the same three counts, whatever the clock did in between.
C8_StatsIdenticalWithoutWrites ==
  [][StatsRanAgain => statsLast'.reply = statsLast.reply]_vars

\* C8, amended: two statistics queries with no write between them give the
\* same total_users; they give the same recent_users and today_users when the
\* clock did not advance between them.
C8_StatsIdenticalWithoutWritesOrTicks ==
  [][StatsRanAgain =>
       /\ statsLast'.reply.total_users = statsLast.reply.total_users
       /\ statsLast'.sameClock => statsLast'.reply = statsLast.reply]_vars

C8_Witness ==
  /\ statsLast # None
  /\ statsLast.again
  /\ ~statsLast.sameClock
  /\ statsLast.reply.total_users = 2
  /\ statsLast.reply.today_users = 0
  /\ now = 1

\* C9: within one invocation of execute the generator is called at most
\* once and sql.query at most once; sql.query is called only after the
\* generator's reply was parsed, with exactly the statement and parameters of
\* that reply; after either fails nothing more is called.
C9_OneGenerationThenOneExecution ==
  \A r \in Reqs :
    inv[r] # None =>
      /\ inv[r].genN <= 1
      /\ inv[r].dbN <= 1
      /\ pc[r] = "tool_db" => (Generated(r) /\ inv[r].dbN = 0)
      /\ (inv[r].dbN = 1 \/ DbCalled(r)) =>
           /\ Generated(r)
           /\ inv[r].dbArgs.stmt = inv[r].gen.value.query
           /\ inv[r].dbArgs.params = inv[r].gen.value.parameters
      /\ (inv[r].gen # None /\ ~inv[r].gen.ok) => (inv[r].dbN = 0 /\ inv[r].dbArgs = None)
      /\ inv[r].ret # None => pc[r] = "agent"

C9_Witness ==
  \E r \in Reqs :
    /\ DbCalled(r)
    /\ inv[r].dbN = 1
    /\ inv[r].dbArgs.params = <<"x'; DROP TABLE users; --">>
    /\ inv[r].dbArgs.stmt = Template("delete")

\* the messages sql.query raises with
DbMessages ==
  {"connection terminated", "syntax error", "duplicate key value violates unique constraint",
   "bind message does not match the prepared statement"}

\* C10: with requests interleaved, the query a request runs is the one
\* generated for its own text, and the rows and count, or the database
\* error, it answers with are those of its own latest database call.
C10_RequestsDoNotShareQueriesOrResults ==
  \A r \in Reqs :
    /\ DbCalled(r) =>
         /\ inv[r].nq = utter[r]
         /\ inv[r].gen.value \in GenQueries(utter[r])
         /\ inv[r].dbArgs = [stmt |-> inv[r].gen.value.query,
                             params |-> inv[r].gen.value.parameters]
    /\ DbCalled(r) => dbSeen[r] = inv[r].dbOut
    /\ (pc[r] = "done" /\ resp[r].k = "json" /\ "users" \in DOMAIN resp[r].body) =>
         /\ dbSeen[r] # None
         /\ ~dbSeen[r].raised
         /\ resp[r].body.users = dbSeen[r].rows
         /\ resp[r].body.count = Len(dbSeen[r].rows)
    /\ (pc[r] = "done" /\ resp[r].k = "json" /\ mainReply[r] = "parsed"
          /\ "error" \in DOMAIN resp[r].body /\ resp[r].body.error \in DbMessages) =>
         /\ dbSeen[r] # None
         /\ dbSeen[r].raised
         /\ resp[r].body.error = dbSeen[r].msg

\* two requests in flight at once, with different queries, one answered
C10_Witness ==
  /\ pc[1] = "agent"
  /\ pc[2] = "done"
  /\ DbAnswered(1)
  /\ inv[1].dbArgs.params = <<"x'; DROP TABLE users; --">>
  /\ resp[2].k = "json"
  /\ "users" \in DOMAIN resp[2].body
  /\ Len(resp[2].body.users) = 2
  /\ resp[2].body.users = dbSeen[2].rows
  /\ dbSeen[1] # dbSeen[2]

====
